---------------------------- MODULE Spec2Model ----------------------------
(* A model of html_docx_converter_custom.py: the pre-pass                  *)
(* check_anchor_id_length and the conversion html_to_docx with its         *)
(* handlers.  The parse tree is a sequence of nodes in document order      *)
(* (node 1 is <body>), each with its parent's index; attribute values and  *)
(* style strings are sequences of one-character strings, so that split,    *)
(* strip, slicing and length are computed as the code computes them.  The  *)
(* output document is a log of the calls made on python-docx.              *)
EXTENDS Integers, Sequences, FiniteSets, TLC

VARIABLES
    source,       \* the tree of the HTML string the caller started from
    html,         \* the tree of the HTML string handed to the next function
    soup,         \* the module-level global `soup` (<<>> is None)
    pc,           \* "input" | "walk" | "done" | "failed"
    pos,          \* index of the next node of soup.body.descendants
    doc,          \* the output document: the log of emitted events
    list_prev_p,  \* html_to_docx's local list_prev_p (0 is None)
    prepassed,    \* whether check_anchor_id_length has run on html
    call,         \* a call of a helper on its own: [fn, arg, returned, ret, raised]
    conv2         \* a second html_to_docx call: its [html, pc, pos, doc, list_prev_p]

vars == <<source, html, soup, pc, pos, doc, list_prev_p, prepassed, call, conv2>>

-----------------------------------------------------------------------------
(* Strings *)

Rep(c, n) == [i \in 1..n |-> c]

Slice(s, a, b) == IF a > b THEN <<>> ELSE [i \in 1..(b - a + 1) |-> s[a + i - 1]]

\* s[:n]
Prefix(s, n) == IF Len(s) <= n THEN s ELSE Slice(s, 1, n)

Contains(s, c) == \E i \in 1..Len(s) : s[i] = c

Whitespace == {" ", "\t", "\n", "\r"}

RECURSIVE LStrip(_)
LStrip(s) == IF s # <<>> /\ Head(s) \in Whitespace THEN LStrip(Tail(s)) ELSE s

RECURSIVE RStrip(_)
RStrip(s) ==
    IF s # <<>> /\ s[Len(s)] \in Whitespace THEN RStrip(Slice(s, 1, Len(s) - 1)) ELSE s

\* str.strip()
Strip(s) == LStrip(RStrip(s))

\* str.lstrip("#")
RECURSIVE LStripHash(_)
LStripHash(s) == IF s # <<>> /\ Head(s) = "#" THEN LStripHash(Tail(s)) ELSE s

\* str.split(sep) for a one-character separator
RECURSIVE SplitFrom(_, _, _)
SplitFrom(s, sep, cur) ==
    IF s = <<>> THEN <<cur>>
    ELSE IF Head(s) = sep THEN <<cur>> \o SplitFrom(Tail(s), sep, <<>>)
    ELSE SplitFrom(Tail(s), sep, Append(cur, Head(s)))

Split(s, sep) == SplitFrom(s, sep, <<>>)

DecDigits == <<"0", "1", "2", "3", "4", "5", "6", "7", "8", "9">>
HexDigits == DecDigits \o <<"A", "B", "C", "D", "E", "F">>
LowerHex == <<"a", "b", "c", "d", "e", "f">>

IsDigit(c) == \E i \in 1..10 : DecDigits[i] = c
DigitVal(c) == (CHOOSE i \in 1..10 : DecDigits[i] = c) - 1

IsHexDigit(c) == (\E i \in 1..16 : HexDigits[i] = c) \/ (\E i \in 1..6 : LowerHex[i] = c)
HexVal(c) ==
    IF \E i \in 1..16 : HexDigits[i] = c
    THEN (CHOOSE i \in 1..16 : HexDigits[i] = c) - 1
    ELSE (CHOOSE i \in 1..6 : LowerHex[i] = c) + 9

RECURSIVE NumIn(_, _, _)
NumIn(s, base, acc) ==
    IF s = <<>> THEN acc
    ELSE NumIn(Tail(s), base,
               acc * base + (IF base = 16 THEN HexVal(Head(s)) ELSE DigitVal(Head(s))))

\* int(s) and int(s, 16) of a plain digit string; CanInt is "does not raise ValueError"
CanInt(s, base) ==
    /\ s # <<>>
    /\ \A i \in 1..Len(s) : IF base = 16 THEN IsHexDigit(s[i]) ELSE IsDigit(s[i])
ToInt(s, base) == NumIn(s, base, 0)

\* "{:X}".format(n), and "{:02X}".format(n)
RECURSIVE HexOf(_)
HexOf(n) == IF n < 16 THEN <<HexDigits[n + 1]>> ELSE Append(HexOf(n \div 16), HexDigits[(n % 16) + 1])
\* the format without its zero padding
Hex02_unpadded(n) == HexOf(n)

Hex02(n) == IF n < 16 THEN <<"0">> \o HexOf(n) ELSE HexOf(n)

-----------------------------------------------------------------------------
(* rgb_to_hex and parse_styles *)

\* the run of \d at s[i..], at most 3 long (the regex group \d{1,3})
RECURSIVE DigitRun(_, _, _)
DigitRun(s, i, n) ==
    IF n < 3 /\ i + n <= Len(s) /\ IsDigit(s[i + n]) THEN DigitRun(s, i, n + 1) ELSE n

\* the run of \s at s[i..]
RECURSIVE SpaceRun(_, _, _)
SpaceRun(s, i, n) ==
    IF i + n <= Len(s) /\ s[i + n] \in Whitespace THEN SpaceRun(s, i, n + 1) ELSE n

At(s, i, c) == i <= Len(s) /\ s[i] = c

\* the groups of (\d{1,3}),\s*(\d{1,3}),\s*(\d{1,3})\) matched at s[i..], the
\* k-th group first, its digits being the n characters at i; <<>> for no match
RECURSIVE RgbGroups(_, _, _, _)
RgbGroups(s, i, k, n) ==
    IF n < 1 THEN <<>>
    ELSE IF k = 3
    THEN IF At(s, i + n, ")") THEN <<Slice(s, i, i + n - 1)>> ELSE <<>>
    ELSE IF ~At(s, i + n, ",") THEN <<>>
    ELSE IF RgbGroups(s, i + n + 1 + SpaceRun(s, i + n + 1, 0), k + 1,
                      DigitRun(s, i + n + 1 + SpaceRun(s, i + n + 1, 0), 0)) = <<>>
    THEN <<>>
    ELSE <<Slice(s, i, i + n - 1)>>
         \o RgbGroups(s, i + n + 1 + SpaceRun(s, i + n + 1, 0), k + 1,
                      DigitRun(s, i + n + 1 + SpaceRun(s, i + n + 1, 0), 0))

\* re.match(r"rgb\((\d{1,3}),\s*(\d{1,3}),\s*(\d{1,3})\)", rgb): the groups, or <<>>
RgbMatch(s) ==
    IF Len(s) >= 4 /\ Slice(s, 1, 4) = <<"r", "g", "b", "(">>
    THEN RgbGroups(s, 5, 1, DigitRun(s, 5, 0))
    ELSE <<>>

\* "{:02X}{:02X}{:02X}".format(*map(int, match.groups()))
RECURSIVE FormatHex(_)
FormatHex(groups) ==
    IF groups = <<>> THEN <<>> ELSE Hex02(ToInt(Head(groups), 10)) \o FormatHex(Tail(groups))

rgb_to_hex(rgb) == IF RgbMatch(rgb) # <<>> THEN FormatHex(RgbMatch(rgb)) ELSE rgb

\* a Python dict: a function on its keys
EmptyDict == [k \in {} |-> <<>>]
DictSet(d, k, v) == [x \in DOMAIN d \cup {k} |-> IF x = k THEN v ELSE d[x]]

\* one value of parse_styles: v.strip().lstrip("#") if "#" in v else rgb_to_hex(v.strip())
StyleValue(v) == IF Contains(v, "#") THEN LStripHash(Strip(v)) ELSE rgb_to_hex(Strip(v))

\* k, v = style_itm.split(":") for one item holding a ":", kv being the parts
ParseItem(kv, acc) ==
    IF Len(kv) # 2 THEN [acc EXCEPT !.raised = TRUE]
    ELSE [acc EXCEPT !.d = DictSet(@, Strip(kv[1]), StyleValue(kv[2]))]

RECURSIVE ParseItems(_, _)
ParseItems(items, acc) ==
    IF items = <<>> \/ acc.raised THEN acc
    ELSE IF ~Contains(Head(items), ":") THEN ParseItems(Tail(items), acc)
    ELSE ParseItems(Tail(items), ParseItem(Split(Head(items), ":"), acc))

\* [d |-> the dict, raised |-> k, v = style_itm.split(":") raised ValueError];
\* has is whether the tag carries a style attribute (None otherwise)
parse_styles(has, style_attr) ==
    IF ~has \/ style_attr = <<>> THEN [d |-> EmptyDict, raised |-> FALSE]
    ELSE ParseItems(Split(style_attr, ";"), [d |-> EmptyDict, raised |-> FALSE])

-----------------------------------------------------------------------------
(* The parse tree (BeautifulSoup).  A node is                               *)
(* [name, parent, attrs, text]: name is the tag name, or "#text" for a      *)
(* NavigableString (whose text is then its payload); parent is the index of *)
(* the parent node, 0 for <body>, whose own parents are <html> and the      *)
(* document object.                                                         *)

TextName == "#text"

Idx(t) == [k \in 1..Len(t) |-> k]

IsStr(t, i) == t[i].name = TextName

\* tag.name (None for a string, which equals no tag name)
Name(t, i) == t[i].name

\* tag.parent.name
ParentName(t, i) == IF t[i].parent = 0 THEN "html" ELSE t[t[i].parent].name

HasAttr(t, i, a) == a \in DOMAIN t[i].attrs
Attr(t, i, a) == t[i].attrs[a]

\* tag.children / tag.contents
Children(t, i) == SelectSeq(Idx(t), LAMBDA j : t[j].parent = i)

RECURSIVE IsAncestor(_, _, _)
IsAncestor(t, a, j) ==
    IF t[j].parent = 0 THEN FALSE
    ELSE t[j].parent = a \/ IsAncestor(t, a, t[j].parent)

\* tag.descendants, in document order
Descendants(t, i) == SelectSeq(Idx(t), LAMBDA j : IsAncestor(t, i, j))

\* [tag.name] + [t.name for t in tag.parents], used only for membership tests
RECURSIVE ParentNames(_, _)
ParentNames(t, i) ==
    IF t[i].parent = 0 THEN {"html", "[document]"}
    ELSE {t[t[i].parent].name} \cup ParentNames(t, t[i].parent)

Ancestors(t, i) == {t[i].name} \cup ParentNames(t, i)

RECURSIVE ConcatText(_, _)
ConcatText(t, js) ==
    IF js = <<>> THEN <<>>
    ELSE (IF IsStr(t, Head(js)) THEN t[Head(js)].text ELSE <<>>) \o ConcatText(t, Tail(js))

\* tag.text: the strings below the tag, joined
TagText(t, i) == IF IsStr(t, i) THEN t[i].text ELSE ConcatText(t, Descendants(t, i))

\* tag.find_all(names): every descendant with one of the names
FindAll(t, i, names) == SelectSeq(Descendants(t, i), LAMBDA j : t[j].name \in names)

\* tag.find_all(name, recursive=False)
FindChildren(t, i, name) == SelectSeq(Children(t, i), LAMBDA j : t[j].name = name)

\* tag.find_next_siblings(name) (nearest first) and tag.find_previous_siblings(name)
NextSiblings(t, i, name) ==
    SelectSeq(Idx(t), LAMBDA j : j > i /\ t[j].parent = t[i].parent /\ t[j].name = name)
PrevSiblings(t, i, name) ==
    SelectSeq(Idx(t), LAMBDA j : j < i /\ t[j].parent = t[i].parent /\ t[j].name = name)

\* soup.find(id=x): the first element in document order with that id, 0 for None
FindId(t, x) ==
    LET hits == SelectSeq(Idx(t), LAMBDA j : HasAttr(t, j, "id") /\ Attr(t, j, "id") = x)
    IN  IF hits = <<>> THEN 0 ELSE Head(hits)

\* skip_crlf that skips nothing
skip_crlf_never(t, i) == FALSE

\* skip_crlf(content)
skip_crlf(t, i) == IsStr(t, i) /\ (t[i].text = <<"\n">> \/ t[i].text = <<"\r">>)

-----------------------------------------------------------------------------
(* The output document: the log of the calls made on python-docx.  A        *)
(* paragraph is named by the index of the event that created it, a table by *)
(* the index of its add_table event; cont is <<>> for the document body and *)
(* <<table, i, j>> for the cell (i, j) of a table (rows and columns from 0, *)
(* as docx_table.cell counts them).                                         *)

E0 ==
    [kind |-> "", node |-> 0, para |-> 0, cont |-> <<>>, text |-> <<>>,
     bold |-> "None", italic |-> "None", underline |-> "None", color |-> <<>>,
     name |-> <<>>, bid |-> <<>>, prev |-> 0, rows |-> 0, cols |-> 0,
     style |-> "", level |-> 0]

\* the state threaded through the handlers: the log, and whether an exception
\* is propagating
Emit(st, e) == [st EXCEPT !.log = Append(@, e)]
Raise(st) == [st EXCEPT !.raised = TRUE]

\* doc.add_paragraph(style=...) or cell.add_paragraph(): its name is Len(log) + 1
AddParagraph(st, node, cont, style, level) ==
    Emit(st, [E0 EXCEPT !.kind = "para", !.node = node, !.cont = cont,
                        !.style = style, !.level = level])
LastPara(st) == Len(st.log)

K_span == <<"s", "p", "a", "n">>
K_bold == <<"b", "o", "l", "d">>
K_italic == <<"i", "t", "a", "l", "i", "c">>
K_underline == <<"u", "n", "d", "e", "r", "l", "i", "n", "e">>
K_color == <<"c", "o", "l", "o", "r">>
K_font_family == <<"f", "o", "n", "t", "-", "f", "a", "m", "i", "l", "y">>
K_text_align == <<"t", "e", "x", "t", "-", "a", "l", "i", "g", "n">>
V_center == <<"c", "e", "n", "t", "e", "r">>
V_right == <<"r", "i", "g", "h", "t">>
V_justify == <<"j", "u", "s", "t", "i", "f", "y">>
C_bookmark == <<"b", "o", "o", "k", "m", "a", "r", "k">>
C_anchor == <<"a", "n", "c", "h", "o", "r">>
C_anchor_link == <<"a", "n", "c", "h", "o", "r", "-", "l", "i", "n", "k">>
C_note == <<"n", "o", "t", "e">>

\* needle in hay, for strings
IsSubstr(needle, hay) ==
    \E i \in 0..(Len(hay) - Len(needle)) : Slice(hay, i + 1, i + Len(needle)) = needle

\* x in list
InList(x, l) == \E i \in 1..Len(l) : l[i] = x

\* a styles argument: None, or a dict shared by every frame it is passed to
NoStyles == [none |-> TRUE, d |-> EmptyDict]
Styles(d) == [none |-> FALSE, d |-> d]
\* Python's truth value of styles
Truthy(sty) == ~sty.none /\ DOMAIN sty.d # {}

BoolStr(b) == IF b THEN "True" ELSE "False"

\* tuple_check with the flag left set whatever the ancestors are
tuple_check_keeps_flag(tag, style, ancestors, style_d) == DictSet(style_d, style, TRUE)

\* tuple_check(tag, style, ancestors, style_d)
tuple_check(tag, style, ancestors, style_d) ==
    IF (tag[1] \notin ancestors) /\ (tag[2] \notin ancestors)
    THEN DictSet(style_d, style, FALSE)
    ELSE DictSet(style_d, style, TRUE)

\* the tag_names dicts the callers pass, as lists of entries
T_span == [tag |-> <<"span">>, style |-> K_span]
T_bold == [tag |-> <<"b", "strong">>, style |-> K_bold]
T_italic == [tag |-> <<"i", "em">>, style |-> K_italic]
T_underline == [tag |-> <<"u">>, style |-> K_underline]

\* check_style_parent(ancestors, style_d, tag_names)
RECURSIVE check_style_parent(_, _, _)
check_style_parent(ancestors, style_d, tag_names) ==
    IF tag_names = <<>> THEN style_d
    ELSE LET e == Head(tag_names)
             d == IF Len(e.tag) = 2
                  THEN tuple_check(e.tag, e.style, ancestors, style_d)
                  ELSE IF e.tag[1] \notin ancestors
                       THEN DictSet(style_d, e.style,
                                    IF e.tag[1] = "span" THEN EmptyDict ELSE FALSE)
                       ELSE style_d
         IN  check_style_parent(ancestors, d, Tail(tag_names))

\* the three slices text_color[i : i + 2] for i in (0, 2, 4)
ColorSlices(c) ==
    [k \in 1..3 |-> Slice(c, 2 * k - 1, IF Len(c) < 2 * k THEN Len(c) ELSE 2 * k)]

\* rgb = tuple(int(text_color[i : i + 2], 16) for i in (0, 2, 4)), sl being the
\* slices: <<>> when int() raises ValueError
RgbOf(sl) ==
    IF \E k \in 1..3 : ~CanInt(sl[k], 16) THEN <<>> ELSE [k \in 1..3 |-> ToInt(sl[k], 16)]

\* add_text_color(paragraph, text, styles): the run it adds, d being the dict,
\* has_color whether it holds a span colour and rgb that colour.  A
\* ValueError from int(.., 16) leaves the try block at once, before bold,
\* italic and underline
AddTextColorRun(node, para, text, d, has_color, rgb) ==
    IF DOMAIN d = {} \/ (has_color /\ rgb = <<>>)
    THEN [E0 EXCEPT !.kind = "run", !.node = node, !.para = para, !.text = text]
    ELSE [E0 EXCEPT !.kind = "run", !.node = node, !.para = para, !.text = text,
                    !.color = IF has_color THEN rgb ELSE @,
                    !.bold = IF K_font_family \in DOMAIN d /\ IsSubstr(K_bold, d[K_font_family])
                             THEN "True"
                             ELSE IF K_bold \in DOMAIN d THEN BoolStr(d[K_bold]) ELSE @,
                    !.italic = IF K_italic \in DOMAIN d THEN BoolStr(d[K_italic]) ELSE @,
                    !.underline = IF K_underline \in DOMAIN d
                                  THEN BoolStr(d[K_underline]) ELSE @]

add_text_color(st, node, para, text, sty) ==
    Emit(st, AddTextColorRun(node, para, text, IF sty.none THEN EmptyDict ELSE sty.d,
                             ~sty.none /\ K_span \in DOMAIN sty.d
                                /\ K_color \in DOMAIN sty.d[K_span],
                             IF ~sty.none /\ K_span \in DOMAIN sty.d
                                /\ K_color \in DOMAIN sty.d[K_span]
                             THEN RgbOf(ColorSlices(sty.d[K_span][K_color]))
                             ELSE <<>>))

\* create_bookmark_run(paragraph, bookmark_name, text, id)
create_bookmark_run(st, node, para, bookmark_name, text, id) ==
    Emit(st, [E0 EXCEPT !.kind = "bookmark", !.node = node, !.para = para,
                        !.name = bookmark_name, !.text = text, !.bid = id])

\* create_internal_hyperlink_run(paragraph, display_text, bookmark_name)
create_internal_hyperlink_run(st, node, para, display_text, bookmark_name) ==
    Emit(st, [E0 EXCEPT !.kind = "ilink", !.node = node, !.para = para,
                        !.text = display_text, !.name = bookmark_name,
                        !.underline = "True"])

\* add_links(paragraph, text, url)
add_links(st, node, para, text, url) ==
    Emit(st, [E0 EXCEPT !.kind = "link", !.node = node, !.para = para,
                        !.text = text, !.name = url, !.underline = "True"])

\* align_para(style_dict, paragraph)
align_para(st, style_dict, para) ==
    IF K_text_align \in DOMAIN style_dict
       /\ style_dict[K_text_align] \in {V_center, V_right, V_justify}
    THEN Emit(st, [E0 EXCEPT !.kind = "align", !.para = para,
                             !.name = style_dict[K_text_align]])
    ELSE st

\* the style attribute as the callers read it: (None if absent), then parse_styles
StyleOf(t, i) ==
    parse_styles(HasAttr(t, i, "style"), IF HasAttr(t, i, "style") THEN Attr(t, i, "style") ELSE <<>>)

HasClass(t, i, c) == HasAttr(t, i, "class") /\ InList(c, Attr(t, i, "class"))

Headings == {"h1", "h2", "h3", "h4", "h5", "h6"}
HeadingStyle(name) ==
    CASE name = "h1" -> "Heading 1" [] name = "h2" -> "Heading 2"
      [] name = "h3" -> "Heading 3" [] name = "h4" -> "Heading 4"
      [] name = "h5" -> "Heading 5" [] OTHER -> "Heading 6"

-----------------------------------------------------------------------------
(* The handlers.  Python's call stack is explicit: the machine m is         *)
(* [t, g, log, raised, stack, ret], with t the tree being walked, g the     *)
(* global soup, raised whether an exception is propagating, and stack the   *)
(* frames of the handler calls in progress (the innermost first).  A frame  *)
(* holds the locals of one call: the children still to visit (kids), and    *)
(* for a styles dict, which Python shares by reference between the caller   *)
(* and the callee, ret = "sty" hands the callee's dict back to the caller's *)
(* frame when the call returns.  cell is <<>> for None.                     *)

F0 ==
    [fn |-> "", kids |-> <<>>, lis |-> <<>>, rows |-> <<>>, tag |-> 0, para |-> 0,
     parent_tag |-> 0, cell |-> <<>>, sty |-> NoStyles, pp |-> 0, level |-> 0,
     table |-> 0, i |-> 0, j |-> 0, ret |-> "none", ev |-> E0]

Machine(t, g, log) ==
    [t |-> t, g |-> g, log |-> log, raised |-> FALSE, stack |-> <<>>,
     ret |-> [sty |-> NoStyles, pp |-> 0]]

Top(m) == Head(m.stack)
SetTop(m, f) == [m EXCEPT !.stack = <<f>> \o Tail(@)]
Push(m, f) == [m EXCEPT !.stack = <<f>> \o @]
SetSty(m, sty) == [m EXCEPT !.stack = <<[Head(@) EXCEPT !.sty = sty]>> \o Tail(@)]

\* the innermost call returns: its caller sees the shared styles dict as the
\* callee left it; the outermost call leaves its results in m.ret
Return(m) ==
    LET f == Head(m.stack)
        rest == Tail(m.stack)
    IN  IF rest = <<>> THEN [m EXCEPT !.stack = rest, !.ret = [sty |-> f.sty, pp |-> f.pp]]
        ELSE IF f.ret = "sty"
        THEN [m EXCEPT !.stack = <<[Head(rest) EXCEPT !.sty = f.sty]>> \o Tail(rest)]
        ELSE [m EXCEPT !.stack = rest]

\* a call process_p_child_tags(doc, paragraph, tag, parent_tag, cell, styles)
CallPChildTags(m, sty, tag, para, parent_tag, cell, ret) ==
    Push(m, [F0 EXCEPT !.fn = "process_p_child_tags", !.kids = Children(m.t, tag),
                       !.tag = tag, !.para = para, !.parent_tag = parent_tag,
                       !.cell = cell, !.sty = sty, !.ret = ret])

\* a call process_list(docx_cell, doc, list_tag, parent_paragraph, level)
CallProcessList(m, cell, list_tag, parent_paragraph, level) ==
    Push(m, [F0 EXCEPT !.fn = "process_list", !.lis = FindChildren(m.t, list_tag, "li"),
                       !.tag = list_tag, !.cell = cell, !.pp = parent_paragraph,
                       !.level = level])

\* a call process_blockquote_paragraphs(doc, tag, cell)
CallBlockquote(m, tag, cell) ==
    Push(m, [F0 EXCEPT !.fn = "process_blockquote_paragraphs",
                       !.kids = Children(m.t, tag), !.tag = tag, !.cell = cell])

\* max(len(row.find_all(["td", "th"])) for row in rows)
RECURSIVE MaxCells(_, _)
MaxCells(t, rows) ==
    IF rows = <<>> THEN 0
    ELSE LET n == Len(FindAll(t, Head(rows), {"td", "th"}))
             m == MaxCells(t, Tail(rows))
         IN  IF n > m THEN n ELSE m

\* a call add_docx_tables(doc, table_html), up to its loop: max() of no rows
\* raises ValueError.  after is <<>>, or the paragraph after which process_list
\* moves the table once the call has returned
add_docx_tables(m, table_html, after) ==
    LET rows == FindAll(m.t, table_html, {"tr"})
        m1 == Emit(m, [E0 EXCEPT !.kind = "table", !.node = table_html,
                                 !.rows = Len(rows), !.cols = MaxCells(m.t, rows),
                                 !.style = "Table Grid"])
        moved == [F0 EXCEPT !.fn = "addnext",
                            !.ev = [E0 EXCEPT !.kind = "table_after", !.node = table_html,
                                              !.para = after[1], !.prev = Len(m1.log)]]
        loop == [F0 EXCEPT !.fn = "add_docx_tables", !.rows = rows, !.tag = table_html,
                           !.table = Len(m1.log), !.i = 0 - 1]
    IN  IF rows = <<>> THEN Raise(m)
        ELSE IF after = <<>> THEN Push(m1, loop)
        ELSE Push(Push(m1, moved), loop)

\* the `a` branch of process_p_child_tags
PAnchor(m, child, para) ==
    LET t == m.t
        bookmark_span == FindId(m.g, Attr(t, child, "class")[1])
        bk_name == IF HasAttr(m.g, bookmark_span, "name")
                   THEN Attr(m.g, bookmark_span, "name")
                   ELSE Attr(m.g, bookmark_span, "id")
    IN  IF HasClass(t, child, C_anchor_link)
        THEN IF bookmark_span # 0
             THEN create_internal_hyperlink_run(m, child, para, TagText(t, child), bk_name)
             ELSE m
        ELSE add_links(m, child, para, TagText(t, child),
                       IF HasAttr(t, child, "href") THEN Attr(t, child, "href") ELSE <<>>)

\* the `span` branch of process_p_child_tags, span_styles being what
\* parse_styles returned; f is the frame of the call
PSpan(m, f, span_styles, child) ==
    LET t == m.t
    IN  IF span_styles.raised \/ f.sty.none THEN Raise(m)
        ELSE IF HasClass(t, child, C_bookmark)
        THEN IF HasAttr(t, child, "name") /\ HasAttr(t, child, "id")
             THEN SetSty(create_bookmark_run(m, child, f.para, Attr(t, child, "name"),
                                             TagText(t, child), Attr(t, child, "id")),
                         Styles(DictSet(f.sty.d, K_span, span_styles.d)))
             ELSE Raise(m)
        ELSE IF HasClass(t, child, C_anchor)
        THEN IF HasAttr(t, child, "id")
             THEN SetSty(create_bookmark_run(m, child, f.para, Attr(t, child, "id"),
                                             <<>>, Attr(t, child, "id")),
                         Styles(DictSet(f.sty.d, K_span, span_styles.d)))
             ELSE Raise(m)
        ELSE CallPChildTags(m, Styles(DictSet(f.sty.d, K_span, span_styles.d)),
                            child, f.para, f.tag, f.cell, "sty")

\* the `p` branch of process_p_child_tags
PParagraph(m, f, child) ==
    LET t == m.t
        m1 == IF HasAttr(t, child, "id")
              THEN create_bookmark_run(m, child, f.para, Attr(t, child, "id"),
                                       <<>>, Attr(t, child, "id"))
              ELSE m
        m2 == AddParagraph(m1, child, f.cell, "", 0)
    IN  IF f.cell # <<>>
        THEN CallPChildTags(m2, f.sty, child, LastPara(m2), f.tag, f.cell, "sty")
        ELSE CallPChildTags(m1, f.sty, child, f.para, f.tag, f.cell, "sty")

\* the text branch of process_p_child_tags, s2 being the styles after
\* check_style_parent
PText(m, f, child, s2) ==
    IF ~Truthy(f.sty)
    THEN Emit(m, [E0 EXCEPT !.kind = "run", !.node = child, !.para = f.para,
                            !.text = m.t[child].text])
    ELSE SetSty(add_text_color(m, child, f.para, m.t[child].text, s2), s2)

\* the branches of process_p_child_tags that add a style flag and descend:
\* styles.update on None raises AttributeError
PFlag(m, f, child, key, tag_names) ==
    IF f.sty.none THEN Raise(m)
    ELSE CallPChildTags(m, Styles(check_style_parent(Ancestors(m.t, f.tag),
                                                     DictSet(f.sty.d, key, TRUE), tag_names)),
                        child, f.para, f.tag, f.cell, "sty")

\* one iteration of the loop of process_p_child_tags, in the frame f
process_p_child_tags(m0, f) ==
    LET t == m0.t
        child == Head(f.kids)
        name == Name(t, child)
        m == SetTop(m0, [f EXCEPT !.kids = Tail(@)])
    IN       IF f.kids = <<>> THEN Return(m0)
        ELSE IF IsStr(t, child) /\ ParentName(t, child) = Name(t, f.tag) /\ ~skip_crlf(t, child)
        THEN PText(m, f, child,
                   Styles(check_style_parent(Ancestors(t, f.tag), f.sty.d,
                                             <<T_span, T_bold, T_italic, T_underline>>)))
        ELSE IF name = "br"
        THEN Emit(m, [E0 EXCEPT !.kind = "break", !.node = child, !.para = f.para])
        ELSE IF name = "p" THEN PParagraph(m, f, child)
        ELSE IF name \in Headings
        THEN IF f.cell = <<>> THEN Raise(m)
             ELSE CallPChildTags(AddParagraph(m, child, f.cell, HeadingStyle(name), 0),
                                 NoStyles, child, Len(m.log) + 1, f.parent_tag, f.cell, "none")
        ELSE IF name = "span"
        THEN PSpan(m, f, parse_styles(TRUE, IF HasAttr(t, child, "style")
                                            THEN Attr(t, child, "style") ELSE <<>>), child)
        ELSE IF name = "strong" \/ name = "b" THEN PFlag(m, f, child, K_bold, <<T_span>>)
        ELSE IF name = "em" \/ name = "i"
        THEN PFlag(m, f, child, K_italic, <<T_span, T_bold>>)
        ELSE IF name = "u" THEN PFlag(m, f, child, K_underline, <<T_span, T_bold, T_italic>>)
        ELSE IF name = "mark"
        THEN CallPChildTags(m, f.sty, child, f.para, f.tag, f.cell, "sty")
        ELSE IF name = "a" THEN PAnchor(m, child, f.para)
        ELSE IF name = "ul" \/ name = "ol"
        THEN CallProcessList(m, IF ParentName(t, child) = "td" THEN f.cell ELSE <<>>,
                             child, 0, 1)
        ELSE IF name = "table" THEN add_docx_tables(m, child, <<>>)
        ELSE IF name = "blockquote" /\ ParentName(t, child) \in {"td", "th"}
        THEN CallBlockquote(m, child, f.cell)
        ELSE m

ListStyle(t, list_tag) == IF Name(t, list_tag) = "ol" THEN "List Number" ELSE "List Bullet"

\* paragraph.alignment and the bookmark of a tag carrying an id, as the list,
\* the cell and the top-level paragraph branches set them
AlignAndBookmark(m, tag, paragraph, style_dict) ==
    IF HasAttr(m.t, tag, "id")
    THEN create_bookmark_run(align_para(m, style_dict, paragraph), tag, paragraph,
                             Attr(m.t, tag, "id"), <<>>, Attr(m.t, tag, "id"))
    ELSE align_para(m, style_dict, paragraph)

\* list_number(doc, paragraph, prev=parent_paragraph) for an ordered list
ListNumber(m, f, child, paragraph) ==
    IF Name(m.t, f.tag) = "ol"
    THEN Emit(m, [E0 EXCEPT !.kind = "list_number", !.node = child,
                            !.para = paragraph, !.prev = f.pp])
    ELSE m

\* the p / blockquote branch of process_list, m being the machine after
\* list_number and style_dict what parse_styles returned
ItemParagraph(m, f, child, paragraph, style_dict) ==
    IF style_dict.raised THEN Raise(m)
    ELSE CallPChildTags(AlignAndBookmark(SetTop(m, [Top(m) EXCEPT !.pp = paragraph]),
                                         child, paragraph, style_dict.d),
                        Styles(style_dict.d), child, paragraph, child, f.cell, "none")

\* the body of the inner loop of process_list for one child of an <li>, m
\* being the machine and paragraph the local once the child has its paragraph
ItemBranch(m, f, child, paragraph) ==
    LET t == m.t
        name == Name(t, child)
    IN       IF name = "a"
        THEN add_links(m, child, paragraph, TagText(t, child),
                       IF HasAttr(t, child, "href") THEN Attr(t, child, "href") ELSE <<>>)
        ELSE IF name \in {"p", "blockquote"}
        THEN ItemParagraph(ListNumber(m, f, child, paragraph), f, child, paragraph,
                           StyleOf(t, child))
        ELSE IF name = "ol" \/ name = "ul"
        THEN CallProcessList(m, f.cell, child, 0, f.level + 1)
        ELSE IF name = "table" /\ ParentName(t, child) = "li"
        THEN add_docx_tables(m, child, <<paragraph>>)
        ELSE m

\* one iteration of the inner loop of process_list: a child that is neither a
\* list nor blank gets a new paragraph.  The frame's para and pp are the
\* locals paragraph and parent_paragraph
ItemChild(m, f, child) ==
    IF Name(m.t, child) \notin {"ol", "ul"} /\ ~skip_crlf(m.t, child)
    THEN ItemBranch(SetTop(AddParagraph(m, child, f.cell, ListStyle(m.t, f.tag), f.level),
                           [f EXCEPT !.kids = Tail(@), !.para = Len(m.log) + 1]),
                    f, child, Len(m.log) + 1)
    ELSE ItemBranch(SetTop(m, [f EXCEPT !.kids = Tail(@)]), f, child, f.para)

\* one step of the two loops of process_list, in the frame f
process_list(m, f) ==
    IF f.kids # <<>> THEN ItemChild(m, f, Head(f.kids))
    ELSE IF f.lis # <<>>
    THEN SetTop(m, [f EXCEPT !.kids = Children(m.t, Head(f.lis)), !.lis = Tail(@)])
    ELSE Return(m)

\* process_table_cell(cell, docx_cell), style_data being what parse_styles
\* returned
process_table_cell(m, cell, docx_cell, style_data) ==
    IF style_data.raised THEN Raise(m)
    ELSE CallPChildTags(AddParagraph(m, cell, docx_cell, "", 0), Styles(style_data.d),
                        cell, Len(m.log) + 1, cell, docx_cell, "none")

\* one step of the two loops of add_docx_tables, in the frame f
TableStep(m, f) ==
    IF f.kids # <<>>
    THEN process_table_cell(SetTop(m, [f EXCEPT !.kids = Tail(@), !.j = @ + 1]),
                            Head(f.kids), <<f.table, f.i, f.j>>, StyleOf(m.t, Head(f.kids)))
    ELSE IF f.rows # <<>>
    THEN SetTop(m, [f EXCEPT !.kids = FindAll(m.t, Head(f.rows), {"td", "th"}),
                             !.rows = Tail(@), !.i = @ + 1, !.j = 0])
    ELSE Return(m)

\* one iteration of the loop of process_blockquote_paragraphs, in the frame f
process_blockquote_paragraphs(m0, f) ==
    LET t == m0.t
        p_tags == Head(f.kids)
        m == SetTop(m0, [f EXCEPT !.kids = Tail(@)])
        m1 == AddParagraph(m, p_tags, f.cell, "", 0)
    IN       IF f.kids = <<>> THEN Return(m0)
        ELSE IF IsStr(t, p_tags) /\ ~skip_crlf(t, p_tags)
        THEN Emit(m1, [E0 EXCEPT !.kind = "run", !.node = p_tags, !.para = LastPara(m1),
                                 !.text = t[p_tags].text])
        ELSE IF ~IsStr(t, p_tags)
        THEN CallPChildTags(m1, Styles(EmptyDict), p_tags, LastPara(m1), f.tag, <<>>, "none")
        ELSE m

\* one step of the innermost call
StepFrame(m) ==
    LET f == Top(m)
    IN  CASE f.fn = "process_p_child_tags" -> process_p_child_tags(m, f)
          [] f.fn = "process_list" -> process_list(m, f)
          [] f.fn = "add_docx_tables" -> TableStep(m, f)
          [] f.fn = "process_blockquote_paragraphs" -> process_blockquote_paragraphs(m, f)
          [] f.fn = "addnext" -> Emit(Return(m), f.ev)

\* run the calls in progress to their end, or to the exception
RECURSIVE Run(_)
Run(m) == IF m.stack = <<>> \/ m.raised THEN m ELSE Run(StepFrame(m))

\* is_list_continued(list_tag): "True", "False", "None" when the function falls
\* off its end, "ValueError" when int() raises
\* the value test with any gap between the two values accepted
value_test_any_gap(current_li_val, sib_val) == "True"

\* int(sib_li["value"]) - int(current_li_val) == 1
value_test(current_li_val, sib_val) ==
    BoolStr(ToInt(sib_val, 10) - ToInt(current_li_val, 10) = 1)

RECURSIVE ContinuedByItems(_, _, _)
ContinuedByItems(t, lis, sibling_li) ==
    IF lis = <<>> THEN "None"
    ELSE IF ~HasAttr(t, Head(lis), "value") THEN "False"
    ELSE IF sibling_li = <<>> THEN ContinuedByItems(t, Tail(lis), sibling_li)
    ELSE IF ~HasAttr(t, Head(sibling_li), "value") THEN "False"
    ELSE IF ~CanInt(Attr(t, Head(sibling_li), "value"), 10)
            \/ ~CanInt(Attr(t, Head(lis), "value"), 10) THEN "ValueError"
    ELSE value_test(Attr(t, Head(lis), "value"), Attr(t, Head(sibling_li), "value"))

is_list_continued(t, list_tag) ==
    LET next_tags == NextSiblings(t, list_tag, "ol")
        prev_tags == PrevSiblings(t, list_tag, "ol")
        next_sibling == next_tags[1]
        n_start == HasAttr(t, next_sibling, "start")
        l_start == HasAttr(t, list_tag, "start")
    IN       IF Len(next_tags) = 0 /\ Len(prev_tags) = 0 THEN "False"
        ELSE IF Len(prev_tags) > 0 /\ Len(next_tags) = 0 THEN "True"
        ELSE IF Name(t, next_sibling) = "ol" /\ n_start /\ ~l_start THEN "False"
        ELSE IF Name(t, next_sibling) = "ol" /\ n_start /\ l_start THEN "True"
        ELSE IF Name(t, next_sibling) = "ol" /\ ~n_start /\ l_start THEN "True"
        ELSE IF Name(t, next_sibling) \notin {"ol", "ul"} THEN "False"
        ELSE ContinuedByItems(t, FindChildren(t, list_tag, "li"),
                              FindChildren(t, next_sibling, "li"))

-----------------------------------------------------------------------------
(* check_anchor_id_length *)

\* the length to which an id is cut (href_val[:40])
IdLimit == 40
\* the least length of a fragment the pattern #[a-zA-Z0-9-]{41,} matches
LongIdLen == 41

\* the character class [a-zA-Z0-9-]
IdChars ==
    {
    "a", "b", "c", "d", "e", "f", "g", "h", "i", "j", "k", "l", "m",
    "n", "o", "p", "q", "r", "s", "t", "u", "v", "w", "x", "y", "z",
    "A", "B", "C", "D", "E", "F", "G", "H", "I", "J", "K", "L", "M",
    "N", "O", "P", "Q", "R", "S", "T", "U", "V", "W", "X", "Y", "Z",
    "0", "1", "2", "3", "4", "5", "6", "7", "8", "9", "-"}

\* re.compile(r"#[a-zA-Z0-9-]{41,}").search(href)
AnchorHrefMatch(href) ==
    \E i \in 1..Len(href) :
        /\ href[i] = "#"
        /\ i + LongIdLen <= Len(href)
        /\ \A k \in 1..LongIdLen : href[i + k] \in IdChars

SetAttr(t, i, a, v) == [t EXCEPT ![i].attrs = DictSet(@, a, v)]

\* the body of the loop over anchor_tags, for one <a>
TrimAnchor(t, a) ==
    LET href_val == Split(Attr(t, a, "href"), "#")[2]
        anchor_target == FindId(t, href_val)
    IN  IF anchor_target # 0
        THEN SetAttr(SetAttr(t, anchor_target, "id", Prefix(href_val, IdLimit)),
                     a, "href", <<"#">> \o Prefix(href_val, IdLimit))
        ELSE t

RECURSIVE TrimAnchors(_, _)
TrimAnchors(t, anchor_tags) ==
    IF anchor_tags = <<>> THEN t
    ELSE TrimAnchors(TrimAnchor(t, Head(anchor_tags)), Tail(anchor_tags))

\* check_anchor_id_length(html, article_id): the tree of the html it returns
check_anchor_id_length(t) ==
    TrimAnchors(t, SelectSeq(FindAll(t, 1, {"a"}),
                             LAMBDA a : HasAttr(t, a, "href")
                                        /\ AnchorHrefMatch(Attr(t, a, "href"))))

-----------------------------------------------------------------------------
(* html_to_docx: the branches of its loop over soup.body.descendants *)

\* which branch of the if / elif chain takes the tag
Branch(t, tag) ==
    LET name == Name(t, tag)
        parent == ParentName(t, tag)
    IN       IF name \in Headings /\ parent \notin {"td", "th"} THEN "heading"
        ELSE IF skip_crlf(t, tag) THEN "crlf"
        ELSE IF name = "p" /\ parent \notin {"li", "td", "th", "blockquote"} THEN "p"
        ELSE IF name = "blockquote" /\ parent \in {"div", "body"} THEN "blockquote"
        ELSE IF name = "div" THEN "div"
        ELSE IF name \in {"ul", "ol"} /\ parent \notin {"td", "th", "li"} THEN "list"
        ELSE IF name = "table" /\ parent \notin {"li", "p"} THEN "table"
        ELSE IF name = "a" /\ parent \notin ({"p", "li", "td", "th"} \cup Headings) THEN "a"
        ELSE "none"

\* the bookmark html_to_docx adds once a heading's children are done
HeadingBookmark(m, tag, paragraph) ==
    IF ~m.raised /\ HasAttr(m.t, tag, "id")
    THEN create_bookmark_run(m, tag, paragraph, Attr(m.t, tag, "id"), <<>>, Attr(m.t, tag, "id"))
    ELSE m

TopHeading(m, tag) ==
    HeadingBookmark(Run(CallPChildTags(AddParagraph(m, tag, <<>>,
                                                    HeadingStyle(Name(m.t, tag)), 0),
                                       Styles(EmptyDict), tag, Len(m.log) + 1, tag, <<>>,
                                       "none")),
                    tag, Len(m.log) + 1)

\* the p branch, style_dict being what parse_styles returned and m the
\* machine once doc.add_paragraph() has run
TopParagraphStyled(m, tag, style_dict) ==
    IF style_dict.raised THEN Raise(m)
    ELSE Run(CallPChildTags(AlignAndBookmark(m, tag, LastPara(m), style_dict.d),
                            Styles(style_dict.d), tag, LastPara(m), tag, <<>>, "none"))

TopParagraph(m, tag) == TopParagraphStyled(AddParagraph(m, tag, <<>>, "", 0), tag, StyleOf(m.t, tag))

TopBlockquote(m, tag) == Run(CallBlockquote(m, tag, <<>>))

TopDiv(m, tag) ==
    LET m1 == AddParagraph(m, tag, <<>>, "", 0)
    IN  IF HasClass(m.t, tag, C_note)
        THEN Run(CallPChildTags(m1, Styles(EmptyDict), tag, LastPara(m1), tag, <<>>, "none"))
        ELSE m

\* the record the model keeps of one top-level list: what is_list_continued
\* returned (style), the parent_paragraph handed to process_list (prev) and the
\* paragraph process_list returned (para)
ListNote(tag, c, prev_p, pp) ==
    [E0 EXCEPT !.kind = "list", !.node = tag, !.style = c, !.prev = prev_p, !.para = pp]

\* the list branch once process_list has returned (r), c being what
\* is_list_continued returned; the machine's ret.pp is the new list_prev_p
ListDone(r, tag, c, given) == IF r.raised THEN r ELSE Emit(r, ListNote(tag, c, given, r.ret.pp))

TopListAs(m, tag, c, given) ==
    IF c = "ValueError" THEN Raise(m)
    ELSE ListDone(Run(CallProcessList(m, <<>>, tag, given, 1)), tag, c, given)

\* the list branch with list_prev_p never handed on
TopList_forgets_prev(m, tag, prev_p) == TopListAs(m, tag, is_list_continued(m.t, tag), 0)

TopList(m, tag, prev_p) ==
    TopListAs(m, tag, is_list_continued(m.t, tag),
              IF is_list_continued(m.t, tag) = "True" THEN prev_p ELSE 0)

TopTable(m, tag) == Run(add_docx_tables(m, tag, <<>>))

TopLink(m, tag) ==
    LET m1 == AddParagraph(m, tag, <<>>, "", 0)
    IN  IF HasAttr(m.t, tag, "href")
        THEN add_links(m1, tag, LastPara(m1), TagText(m.t, tag), Attr(m.t, tag, "href"))
        ELSE Raise(m1)

-----------------------------------------------------------------------------
(* The input documents *)

NoAttrs == EmptyDict
A(k, v) == [x \in {k} |-> v]

\* an element and a string, as nested values
El(name, attrs, kids) == [name |-> name, attrs |-> attrs, kids |-> kids, text |-> <<>>]
Tx(text) == [name |-> TextName, attrs |-> NoAttrs, kids |-> <<>>, text |-> text]

RECURSIVE FlatNode(_, _, _)
RECURSIVE FlatKids(_, _, _)
FlatNode(n, parent, idx) ==
    <<[name |-> n.name, parent |-> parent, attrs |-> n.attrs, text |-> n.text]>>
        \o FlatKids(n.kids, idx, idx + 1)
FlatKids(kids, parent, next) ==
    IF kids = <<>> THEN <<>>
    ELSE LET f == FlatNode(Head(kids), parent, next)
         IN  f \o FlatKids(Tail(kids), parent, next + Len(f))

\* the tree of <body>kids</body>, in document order
Body(kids) == FlatNode(El("body", NoAttrs, kids), 0, 1)

SeqsUpTo(S, n) == UNION {[1..k -> S] : k \in 1..n}
SeqsFrom0(S, n) == UNION {[1..k -> S] : k \in 0..n}

\* bounds of the generated documents
MaxKids == 2
MaxLists == 2
MaxRows == 2
MaxRowCells == 3
MaxLinks == 2

TxA == Tx(<<"a">>)
TxNl == Tx(<<"\n">>)
TxCr == Tx(<<"\r">>)
PA == El("p", NoAttrs, <<TxA>>)

S_color1 == <<"c", "o", "l", "o", "r", ":", "#", "1", "1", "2", "2", "3", "3">>
S_color2 == <<"c", "o", "l", "o", "r", ":", " ", "r", "g", "b", "(", "2", "5", "5", ",", " ", "0", ",", "1", "0", ")">>
S_color_red == <<"c", "o", "l", "o", "r", ":", "r", "e", "d">>
S_font_bold == <<"f", "o", "n", "t", "-", "f", "a", "m", "i", "l", "y", ":", " ", "A", "r", "i", "a", "l", " ", "b", "o", "l", "d">>
S_center == <<"t", "e", "x", "t", "-", "a", "l", "i", "g", "n", ":", "c", "e", "n", "t", "e", "r">>

\* inline markup
Wraps ==
    {<<"b", NoAttrs>>, <<"em", NoAttrs>>, <<"u", NoAttrs>>,
     <<"span", A("style", S_color1)>>, <<"span", A("style", S_color2)>>,
     <<"span", A("style", S_color_red)>>}
Inline1 == {TxA} \cup {El(w[1], w[2], <<TxA>>) : w \in Wraps}
Inline2 == {El(w[1], w[2], ks) : w \in Wraps, ks \in SeqsUpTo(Inline1, MaxKids)}

SpecExample ==
    <<TxA, El("span", A("style", S_color1), <<TxA>>),
      El("strong", NoAttrs, <<TxA, El("em", NoAttrs, <<TxA>>)>>)>>

InlineDocs ==
    {Body(<<El("p", NoAttrs, ks)>>) : ks \in SeqsUpTo(Inline1, MaxKids)}
    \cup {Body(<<El("p", NoAttrs, <<d>>)>>) : d \in Inline2}
    \cup {Body(<<El("p", A("style", st), <<d, TxNl>>)>>) :
              st \in {S_font_bold, S_center}, d \in Inline1}
    \cup {Body(<<El("p", NoAttrs, SpecExample)>>),
          Body(<<El("h1", NoAttrs, <<El("i", NoAttrs, <<TxA>>), El("br", NoAttrs, <<>>),
                                      El("mark", NoAttrs, <<TxA>>)>>)>>)}


\* lists
Li(attrs) == El("li", attrs, <<PA>>)
LiText == El("li", NoAttrs, <<TxA>>)
LiValues == {<<"3">>, <<"4">>, <<"5">>}
ItemLists ==
    {<<>>, <<Li(NoAttrs)>>, <<LiText>>, <<Li(A("value", <<"3">>)), Li(NoAttrs)>>}
    \cup {<<Li(A("value", v))>> : v \in LiValues}
OrderedLists ==
    {El("ol", NoAttrs, items) : items \in ItemLists}
    \cup {El("ol", A("start", <<"3">>), items) :
              items \in {<<Li(NoAttrs)>>, <<Li(A("value", <<"3">>))>>}}
Blocks == OrderedLists \cup {El("ul", NoAttrs, <<Li(NoAttrs)>>), PA}
ThreeLists ==
    {El("ol", NoAttrs, <<Li(NoAttrs)>>), El("ol", NoAttrs, <<Li(A("value", <<"3">>))>>),
     El("ol", A("start", <<"3">>), <<Li(A("value", <<"4">>))>>)}

ListDocs ==
    {Body(bs) : bs \in SeqsUpTo(Blocks, MaxLists)}
    \cup {Body(<<a, b, c>>) : a \in ThreeLists, b \in ThreeLists, c \in ThreeLists}
    \cup {Body(<<El("ul", NoAttrs,
                    <<El("li", NoAttrs,
                         <<El("a", A("href", <<"u">>), <<TxA>>),
                           El("ol", NoAttrs, <<Li(NoAttrs)>>),
                           El("table", NoAttrs,
                              <<El("tr", NoAttrs, <<El("td", NoAttrs, <<TxA>>)>>)>>)>>)>>)>>)}

\* tables: every shape of up to MaxRows rows of up to MaxRowCells cells
Td(kids) == El("td", NoAttrs, kids)
Row(n, first) ==
    El("tr", NoAttrs, [j \in 1..n |-> IF j = 1 THEN Td(first) ELSE Td(<<TxA>>)])
Table(shape, first) ==
    El("table", NoAttrs, [i \in 1..Len(shape) |-> Row(shape[i], IF i = 1 THEN first ELSE <<TxA>>)])
Shapes == SeqsFrom0(0..MaxRowCells, MaxRows)
Inner == Table(<<1>>, <<TxA>>)

TableDocs ==
    {Body(<<Table(sh, <<TxA>>)>>) : sh \in Shapes}
    \cup {Body(<<Table(sh, <<Inner>>)>>) : sh \in {x \in Shapes : Len(x) > 0 /\ x[1] > 0}}
    \cup {Body(<<El("table", NoAttrs,
                    <<El("tr", NoAttrs, <<El("th", A("style", S_center), <<PA>>),
                                           El("td", NoAttrs, <<El("h2", NoAttrs, <<TxA>>)>>)>>)>>)>>)}

\* anchors and bookmarks
ShortId == <<"s", "1">>
LongId == Rep("a", IdLimit) \o <<"b">>
LongId2 == Rep("a", IdLimit) \o <<"c", "d">>
Ids == {ShortId, LongId, LongId2}
N_mark == <<"m", "k">>

Links ==
    {El("a", A("href", <<"#">> \o x), <<TxA>>) : x \in Ids}
    \cup {El("a", [class |-> <<x, C_anchor_link>>, href |-> <<"#">> \o x], <<TxA>>) : x \in Ids}
Targets ==
    {El("p", A("id", x), <<TxA>>) : x \in Ids}
    \cup {El("h2", A("id", x), <<TxA>>) : x \in Ids}
    \cup {El("p", NoAttrs, <<El("span", [class |-> <<C_anchor>>, id |-> x], <<>>)>>) :
              x \in Ids}
    \cup {El("p", NoAttrs,
             <<El("span", [class |-> <<C_bookmark>>, id |-> x, name |-> N_mark], <<TxA>>)>>) :
              x \in Ids}
    \cup {El("blockquote", NoAttrs, <<El("p", A("id", ShortId), <<TxA>>)>>),
          El("p", [id |-> ShortId, name |-> N_mark], <<TxA>>)}

AnchorDocs ==
    {Body(<<El("p", NoAttrs, ls), tg>>) : ls \in SeqsUpTo(Links, MaxLinks), tg \in Targets}

\* containers and what they may hold
Note(kids) == El("div", A("class", <<C_note>>), kids)
Contents ==
    {PA, TxA, TxNl, TxCr, El("h2", NoAttrs, <<TxA>>), El("a", A("href", <<"u">>), <<TxA>>),
     El("a", NoAttrs, <<TxA>>), El("ol", NoAttrs, <<Li(NoAttrs)>>), Inner,
     El("blockquote", NoAttrs, <<PA>>), El("span", NoAttrs, <<El("a", A("href", <<"u">>), <<TxA>>)>>)}

ContainerDocs ==
    {Body(<<Note(<<c>>)>>) : c \in Contents}
    \cup {Body(<<El("div", NoAttrs, <<c>>)>>) : c \in Contents}
    \cup {Body(<<El("blockquote", NoAttrs, <<c>>)>>) : c \in Contents}
    \cup {Body(<<El("ul", NoAttrs, <<El("li", NoAttrs, <<c>>)>>)>>) : c \in Contents}
    \cup {Body(<<Table(<<1>>, <<c>>)>>) : c \in Contents}
    \cup {Body(<<c>>) : c \in Contents}

Docs == InlineDocs \cup ListDocs \cup TableDocs \cup AnchorDocs \cup ContainerDocs

-----------------------------------------------------------------------------
(* The state machine *)

\* no second call of html_to_docx
NoConversion == [html |-> <<>>, pc |-> "off", pos |-> 0, doc |-> <<>>, list_prev_p |-> 0]

Init ==
    /\ source \in Docs
    /\ html = source
    /\ soup = <<>>
    /\ pc = "input"
    /\ pos = 0
    /\ doc = <<>>
    /\ list_prev_p = 0
    /\ prepassed = FALSE
    /\ call = <<>>
    /\ conv2 = NoConversion

\* the caller runs the pre-pass on the HTML before converting it
CheckAnchorIdLength ==
    /\ pc = "input"
    /\ ~prepassed
    /\ html' = check_anchor_id_length(html)
    /\ prepassed' = TRUE
    /\ UNCHANGED <<source, soup, pc, pos, doc, list_prev_p, call, conv2>>

\* html_to_docx up to its loop: the document, the global soup, the title heading
HtmlToDocx ==
    /\ pc = "input"
    /\ soup' = html
    /\ doc' = <<[E0 EXCEPT !.kind = "para", !.style = "Title"]>>
    /\ list_prev_p' = 0
    /\ pos' = 1
    /\ pc' = "walk"
    /\ UNCHANGED <<source, html, prepassed, call, conv2>>

\* the tag the loop is at: the pos-th of soup.body.descendants, the generator
\* the loop made from the tree parsed from html when it started; the handlers
\* read the global soup when they run
Tag == pos + 1
M == Machine(html, soup, doc)

AtBranch(b) == pc = "walk" /\ Tag <= Len(html) /\ Branch(html, Tag) = b

\* the end of one iteration: the next tag, or the exception leaves html_to_docx
Step(m) ==
    /\ doc' = m.log
    /\ pc' = IF m.raised THEN "failed" ELSE "walk"
    /\ pos' = IF m.raised THEN pos ELSE pos + 1
    /\ UNCHANGED <<source, html, soup, prepassed, call, conv2>>

\* the end of an iteration of the list branch, which assigns list_prev_p
StepList(m) == Step(m) /\ list_prev_p' = IF m.raised THEN list_prev_p ELSE m.ret.pp

WalkHeading == AtBranch("heading") /\ Step(TopHeading(M, Tag)) /\ UNCHANGED list_prev_p
WalkCrlf == AtBranch("crlf") /\ Step(M) /\ UNCHANGED list_prev_p
WalkParagraph == AtBranch("p") /\ Step(TopParagraph(M, Tag)) /\ UNCHANGED list_prev_p
WalkBlockquote == AtBranch("blockquote") /\ Step(TopBlockquote(M, Tag)) /\ UNCHANGED list_prev_p
WalkDiv == AtBranch("div") /\ Step(TopDiv(M, Tag)) /\ UNCHANGED list_prev_p
WalkList == AtBranch("list") /\ StepList(TopList(M, Tag, list_prev_p))
WalkTable == AtBranch("table") /\ Step(TopTable(M, Tag)) /\ UNCHANGED list_prev_p
WalkLink == AtBranch("a") /\ Step(TopLink(M, Tag)) /\ UNCHANGED list_prev_p
WalkOther == AtBranch("none") /\ Step(M) /\ UNCHANGED list_prev_p

\* the loop is over: set_document_margin, doc.save
Finish ==
    /\ pc = "walk"
    /\ Tag > Len(html)
    /\ pc' = "done"
    /\ UNCHANGED <<source, html, soup, pos, doc, list_prev_p, prepassed, call, conv2>>

Next ==
    \/ CheckAnchorIdLength
    \/ HtmlToDocx
    \/ WalkHeading
    \/ WalkCrlf
    \/ WalkParagraph
    \/ WalkBlockquote
    \/ WalkDiv
    \/ WalkList
    \/ WalkTable
    \/ WalkLink
    \/ WalkOther
    \/ Finish

Spec == Init /\ [][Next]_vars

-----------------------------------------------------------------------------
(* Two calls of html_to_docx in one process, interleaved as two threads     *)
(* interleave them: `soup` is one module global, which each call assigns    *)
(* and which the handlers of both read.                                     *)

AnchorLink(x) == El("a", [class |-> <<x, C_anchor_link>>, href |-> <<"#">> \o x], <<TxA>>)

\* the documents of the first call and of the second
FirstDocs ==
    {Body(<<c>>) : c \in Contents}
    \cup {Body(<<Note(<<PA>>)>>),
          Body(<<El("p", NoAttrs, <<AnchorLink(ShortId)>>), El("p", A("id", ShortId), <<TxA>>)>>)}
SecondDocs ==
    {Body(<<PA>>),
     Body(<<El("ol", NoAttrs, <<Li(NoAttrs)>>), El("ol", NoAttrs, <<Li(NoAttrs)>>)>>),
     Body(<<El("p", [id |-> ShortId, name |-> N_mark], <<TxA>>)>>)}

InitInterleaved ==
    /\ source \in FirstDocs
    /\ html = source
    /\ soup = <<>>
    /\ pc = "input"
    /\ pos = 0
    /\ doc = <<>>
    /\ list_prev_p = 0
    /\ prepassed = FALSE
    /\ call = <<>>
    /\ conv2 \in {[NoConversion EXCEPT !.html = d, !.pc = "input"] : d \in SecondDocs}

\* the second call up to its loop: it assigns the global soup
HtmlToDocx2 ==
    /\ conv2.pc = "input"
    /\ soup' = conv2.html
    /\ conv2' = [conv2 EXCEPT !.pc = "walk", !.pos = 1, !.list_prev_p = 0,
                              !.doc = <<[E0 EXCEPT !.kind = "para", !.style = "Title"]>>]
    /\ UNCHANGED <<source, html, pc, pos, doc, list_prev_p, prepassed, call>>

\* one iteration of the loop of html_to_docx, whichever branch takes the tag
Iterate(m, tag, prev_p, b) ==
    CASE b = "heading" -> TopHeading(m, tag)
      [] b = "p" -> TopParagraph(m, tag)
      [] b = "blockquote" -> TopBlockquote(m, tag)
      [] b = "div" -> TopDiv(m, tag)
      [] b = "list" -> TopList(m, tag, prev_p)
      [] b = "table" -> TopTable(m, tag)
      [] b = "a" -> TopLink(m, tag)
      [] OTHER -> m

Step2(m, b) ==
    /\ conv2' = [conv2 EXCEPT !.doc = m.log,
                              !.pc = IF m.raised THEN "failed" ELSE "walk",
                              !.pos = IF m.raised THEN @ ELSE @ + 1,
                              !.list_prev_p = IF b = "list" /\ ~m.raised THEN m.ret.pp ELSE @]
    /\ UNCHANGED <<source, html, soup, pc, pos, doc, list_prev_p, prepassed, call>>

\* one iteration of the loop of the second call
Walk2 ==
    /\ conv2.pc = "walk"
    /\ conv2.pos + 1 <= Len(conv2.html)
    /\ Step2(Iterate(Machine(conv2.html, soup, conv2.doc), conv2.pos + 1, conv2.list_prev_p,
                     Branch(conv2.html, conv2.pos + 1)),
             Branch(conv2.html, conv2.pos + 1))

Finish2 ==
    /\ conv2.pc = "walk"
    /\ conv2.pos + 1 > Len(conv2.html)
    /\ conv2' = [conv2 EXCEPT !.pc = "done"]
    /\ UNCHANGED <<source, html, soup, pc, pos, doc, list_prev_p, prepassed, call>>

NextInterleaved == Next \/ HtmlToDocx2 \/ Walk2 \/ Finish2

SpecInterleaved == InitInterleaved /\ [][NextInterleaved]_vars

-----------------------------------------------------------------------------
(* The helpers called on their own: parse_styles and rgb_to_hex on strings  *)
(* drawn from small sets.                                                   *)

\* s1 + sep + s2 + ..., the string str.split(sep) cuts back into the parts
RECURSIVE Join(_, _)
Join(parts, sep) ==
    IF Len(parts) = 1 THEN parts[1] ELSE parts[1] \o sep \o Join(Tail(parts), sep)

\* bounds of the strings
MaxItems == 2
MaxDigits == 3

\* the entries of a style attribute: well formed ones, two for one key, and
\* ones that are empty, have no colon, or have two colons
StyleEntries ==
    {S_color1, S_color2, S_center, S_color_red,
     <<" ", "k", " ", ":", " ", "v", " ">>,
     <<>>,
     <<"k">>,
     <<"k", ":", "a", ":", "b">>}
StyleStrings == {Join(es, <<";">>) : es \in SeqsUpTo(StyleEntries, MaxItems)}

\* decimal numerals of up to MaxDigits digits for numbers up to 255, and
\* rgb(r,g,b) over them
ComponentDigits == {"0", "1", "5"}
Components ==
    {c \in SeqsUpTo(ComponentDigits, MaxDigits) :
         (Len(c) > 1 => c[1] # "0") /\ ToInt(c, 10) <= 255}
    \cup {<<"2", "5", "5">>}
RgbStrings ==
    {<<"r", "g", "b", "(">> \o r \o <<",">> \o g \o <<",">> \o b \o <<")">> :
         r \in Components, g \in Components, b \in Components}

Calling(fn, arg) == [fn |-> fn, arg |-> arg, returned |-> FALSE, ret |-> <<>>, raised |-> FALSE]

InitCalls ==
    /\ source = <<>> /\ html = <<>> /\ soup = <<>>
    /\ pc = "helpers" /\ pos = 0 /\ doc = <<>> /\ list_prev_p = 0 /\ prepassed = FALSE
    /\ conv2 = NoConversion
    /\ call \in {Calling("parse_styles", s) : s \in StyleStrings}
                \cup {Calling("rgb_to_hex", s) : s \in RgbStrings}

\* the call returns, or raises
Returns(ret, raised) ==
    /\ ~call.returned
    /\ call' = [call EXCEPT !.returned = TRUE, !.ret = ret, !.raised = raised]
    /\ UNCHANGED <<source, html, soup, pc, pos, doc, list_prev_p, prepassed, conv2>>

CallParseStyles ==
    /\ pc = "helpers" /\ call.fn = "parse_styles"
    /\ Returns(parse_styles(TRUE, call.arg).d, parse_styles(TRUE, call.arg).raised)

CallRgbToHex ==
    /\ pc = "helpers" /\ call.fn = "rgb_to_hex"
    /\ Returns(rgb_to_hex(call.arg), FALSE)

NextCalls == CallParseStyles \/ CallRgbToHex

SpecCalls == InitCalls /\ [][NextCalls]_vars

-----------------------------------------------------------------------------
(* The claims *)

Done == pc = "done"

\* the elements of the source whose id is longer than IdLimit
LongTargets ==
    {n \in DOMAIN source : HasAttr(source, n, "id") /\ Len(Attr(source, n, "id")) > IdLimit}

\* the links of the source whose fragment is the id of element n
LinksTo(n) ==
    {a \in DOMAIN source : /\ Name(source, a) = "a"
                           /\ HasAttr(source, a, "href")
                           /\ Attr(source, a, "href") = <<"#">> \o Attr(source, n, "id")}

\* C1: after the pre-pass and the conversion, the bookmark emitted for an
\* element whose id is longer than 40 characters, and every link emitted for
\* it, carry the first 40 characters of the original id (elements that name
\* their bookmark with a name attribute are left aside).
C1_TruncatedNamesAgree ==
    (Done /\ prepassed) =>
        \A n \in LongTargets : \A i \in DOMAIN doc :
            /\ (doc[i].kind = "bookmark" /\ doc[i].node = n /\ ~HasAttr(source, n, "name"))
                   => doc[i].name = Prefix(Attr(source, n, "id"), IdLimit)
            /\ (doc[i].kind = "link" /\ doc[i].node \in LinksTo(n))
                   => doc[i].name = <<"#">> \o Prefix(Attr(source, n, "id"), IdLimit)
            /\ (doc[i].kind = "ilink" /\ doc[i].node \in LinksTo(n)
                    /\ ~HasAttr(source, n, "name"))
                   => doc[i].name = Prefix(Attr(source, n, "id"), IdLimit)

\* C2: after check_anchor_id_length, every link whose fragment was the id of
\* some element before the pass has the id of that element as its fragment.
C2_LinksFollowTargets ==
    prepassed =>
        \A n \in DOMAIN source : HasAttr(source, n, "id") =>
            \A a \in LinksTo(n) : Attr(html, a, "href") = <<"#">> \o Attr(html, n, "id")

\* an element enclosing node n (n included) declares, in its style attribute,
\* a font-family whose value holds "bold"
RECURSIVE FontBoldAbove(_, _)
FontBoldAbove(t, n) ==
    IF n = 0 THEN FALSE
    ELSE \/ /\ HasAttr(t, n, "style")
            /\ K_font_family \in DOMAIN parse_styles(TRUE, Attr(t, n, "style")).d
            /\ IsSubstr(K_bold, parse_styles(TRUE, Attr(t, n, "style")).d[K_font_family])
         \/ FontBoldAbove(t, t[n].parent)

\* the names of the elements enclosing the text node x
Enclosing(t, x) == Ancestors(t, t[x].parent)

\* C3 as stated: a text run is bold only if a b or strong element encloses the
\* text node, italic only if an i or em does, underlined only if a u does.
C3_FlagsNeedAncestor ==
    \A i \in DOMAIN doc : doc[i].kind = "run" =>
        /\ doc[i].bold = "True" => {"b", "strong"} \cap Enclosing(soup, doc[i].node) # {}
        /\ doc[i].italic = "True" => {"i", "em"} \cap Enclosing(soup, doc[i].node) # {}
        /\ doc[i].underline = "True" => "u" \in Enclosing(soup, doc[i].node)

\* C3 amended: a text run is bold only if a b or strong element encloses the
\* text node or an enclosing element's style declares a font-family holding
\* "bold"; italic only if an i or em encloses it; underlined only if a u does.
C3_FlagsNeedAncestorOrFont ==
    \A i \in DOMAIN doc : doc[i].kind = "run" =>
        /\ doc[i].bold = "True" =>
               \/ {"b", "strong"} \cap Enclosing(soup, doc[i].node) # {}
               \/ FontBoldAbove(soup, soup[doc[i].node].parent)
        /\ doc[i].italic = "True" => {"i", "em"} \cap Enclosing(soup, doc[i].node) # {}
        /\ doc[i].underline = "True" => "u" \in Enclosing(soup, doc[i].node)

\* a bold run is followed, in the same paragraph, by a run of a text node
\* that no b or strong encloses, emitted with bold false and italic true
C3_Witness ==
    /\ Done
    /\ \E i, j \in DOMAIN doc :
           /\ i < j /\ doc[i].kind = "run" /\ doc[j].kind = "run"
           /\ doc[i].para = doc[j].para
           /\ doc[i].bold = "True"
           /\ doc[j].bold = "False" /\ doc[j].italic = "True"
           /\ {"b", "strong"} \cap Enclosing(soup, doc[j].node) = {}

\* the documents of one top-level paragraph holding only inline markup
OneParagraph ==
    /\ Len(source) >= 2
    /\ Name(source, 2) = "p"
    /\ \A n \in 3..Len(source) :
           /\ IsAncestor(source, 2, n)
           /\ Name(source, n) \in {"b", "strong", "i", "em", "u", "span", TextName}

\* the text nodes that are not a lone line break, and the runs, in order
TextNodes == SelectSeq(Idx(source), LAMBDA n : IsStr(source, n) /\ ~skip_crlf(source, n))
Runs == SelectSeq(Idx(doc), LAMBDA i : doc[i].kind = "run")

\* the colour the style attribute of element n declares, <<>> for none
StyledColor(t, n) ==
    IF /\ HasAttr(t, n, "style")
       /\ K_color \in DOMAIN parse_styles(TRUE, Attr(t, n, "style")).d
    THEN RgbOf(ColorSlices(parse_styles(TRUE, Attr(t, n, "style")).d[K_color]))
    ELSE <<>>

\* the colour of the nearest styled span enclosing node n, <<>> for none
RECURSIVE SpanColor(_, _)
SpanColor(t, n) ==
    IF n = 0 THEN <<>>
    ELSE IF Name(t, n) = "span" /\ StyledColor(t, n) # <<>> THEN StyledColor(t, n)
    ELSE SpanColor(t, t[n].parent)

\* C4: each text node of a top-level paragraph gives exactly one run, in
\* document order, bold when a b or strong encloses it, italic when an i or em
\* does, and coloured as its enclosing styled span.
C4_OneRunPerTextNode ==
    (Done /\ OneParagraph) =>
        /\ Len(Runs) = Len(TextNodes)
        /\ \A k \in 1..Len(Runs) :
               /\ doc[Runs[k]].node = TextNodes[k]
               /\ {"b", "strong"} \cap Enclosing(source, TextNodes[k]) # {}
                      => doc[Runs[k]].bold = "True"
               /\ {"i", "em"} \cap Enclosing(source, TextNodes[k]) # {}
                      => doc[Runs[k]].italic = "True"
               /\ SpanColor(source, TextNodes[k]) # <<>>
                      => doc[Runs[k]].color = SpanColor(source, TextNodes[k])

\* C5: text of an outer styled span that follows an inner styled span is
\* emitted with the outer span's colour.
C5_InnerColorScoped ==
    \A i \in DOMAIN doc :
        (/\ doc[i].kind = "run"
         /\ Name(soup, soup[doc[i].node].parent) = "span"
         /\ StyledColor(soup, soup[doc[i].node].parent) # <<>>
         /\ \E s \in DOMAIN soup :
                /\ s < doc[i].node
                /\ soup[s].parent = soup[doc[i].node].parent
                /\ Name(soup, s) = "span"
                /\ StyledColor(soup, s) # <<>>)
            => doc[i].color = StyledColor(soup, soup[doc[i].node].parent)

\* the children of <body>, and the items of a list
BodyKids == Children(source, 1)
Items(n) == FindChildren(source, n, "li")

\* the body holds exactly two lists, both ol without start
TwoLists ==
    /\ Len(BodyKids) = 2
    /\ \A k \in 1..2 : Name(source, BodyKids[k]) = "ol" /\ ~HasAttr(source, BodyKids[k], "start")
ListA == BodyKids[1]
ListB == BodyKids[2]

\* no item of either list declares value
TwoPlainLists ==
    TwoLists /\ \A k \in 1..2 : \A j \in 1..Len(Items(BodyKids[k])) :
                    ~HasAttr(source, Items(BodyKids[k])[j], "value")

\* the first item of each list declares value
TwoValueLists ==
    TwoLists /\ \A k \in 1..2 : /\ Items(BodyKids[k]) # <<>>
                                /\ HasAttr(source, Items(BodyKids[k])[1], "value")
ValueA == ToInt(Attr(source, Items(ListA)[1], "value"), 10)
ValueB == ToInt(Attr(source, Items(ListB)[1], "value"), 10)

\* what the list branch recorded for the top-level list n
NoteOf(n) == doc[CHOOSE i \in DOMAIN doc : doc[i].kind = "list" /\ doc[i].node = n]

\* the numbered paragraphs of list n, in order
Numbered(n) ==
    SelectSeq(Idx(doc), LAMBDA i : doc[i].kind = "list_number" /\ IsAncestor(source, n, doc[i].node))

C7_ContinuedIffNext ==
    (Done /\ TwoValueLists) => (NoteOf(ListB).style = "True" <=> ValueB - ValueA = 1)

\* C7 amended: the test b - a = 1 decides is_list_continued for list A, the
\* list with a following sibling; list B, which has a previous ol sibling and
\* no following one, is a continuation whatever the values are.
C7_FirstDecidedByValues ==
    (Done /\ TwoValueLists) =>
        /\ NoteOf(ListA).style = BoolStr(ValueB - ValueA = 1)
        /\ NoteOf(ListB).style = "True"
        /\ NoteOf(ListB).prev = NoteOf(ListA).para

\* value 3 then value 5: list A is not continued, list B is
C7_Witness ==
    /\ Done /\ TwoValueLists
    /\ ValueA = 3 /\ ValueB = 5
    /\ NoteOf(ListA).style = "False" /\ NoteOf(ListB).style = "True"

\* the four-step decision procedure the specification gives for a list
FourSteps(t, l) ==
    LET next == NextSiblings(t, l, "ol")
        prev == PrevSiblings(t, l, "ol")
        l_items == FindChildren(t, l, "li")
        n_items == FindChildren(t, next[1], "li")
    IN       IF next = <<>> /\ prev = <<>> THEN "False"
        ELSE IF next = <<>> THEN "True"
        ELSE IF HasAttr(t, next[1], "start") /\ ~HasAttr(t, l, "start") THEN "False"
        ELSE IF HasAttr(t, l, "start") THEN "True"
        ELSE IF /\ l_items # <<>> /\ n_items # <<>>
                /\ HasAttr(t, l_items[1], "value") /\ HasAttr(t, n_items[1], "value")
        THEN BoolStr(ToInt(Attr(t, n_items[1], "value"), 10)
                     - ToInt(Attr(t, l_items[1], "value"), 10) = 1)
        ELSE "False"

\* C8: for every top-level ordered list, is_list_continued returns the outcome
\* of the four-step procedure, a definite false included.
C8_FourStepOutcome ==
    \A i \in DOMAIN doc :
        (doc[i].kind = "list" /\ Name(soup, doc[i].node) = "ol")
            => doc[i].style = FourSteps(soup, doc[i].node)

\* the rows of a table and the cells of a row
OwnRows(t, tb) == FindChildren(t, tb, "tr")
OwnCells(t, r) == SelectSeq(Children(t, r), LAMBDA j : Name(t, j) \in {"td", "th"})
CellCounts(t, tb) == {Len(OwnCells(t, OwnRows(t, tb)[r])) : r \in 1..Len(OwnRows(t, tb))}

\* C9: the grid has as many rows as the table has row nodes and as many
\* columns as its longest row has cells, and the j-th cell of the i-th row is
\* written to the grid cell (i, j).
C9_GridMatchesRows ==
    \A i \in DOMAIN doc : doc[i].kind = "table" =>
        /\ doc[i].rows = Len(OwnRows(soup, doc[i].node))
        /\ doc[i].cols \in CellCounts(soup, doc[i].node)
        /\ \A c \in CellCounts(soup, doc[i].node) : c <= doc[i].cols
        /\ \A k \in DOMAIN doc :
               (/\ doc[k].kind = "para" /\ doc[k].cont # <<>> /\ doc[k].cont[1] = i
                /\ Name(soup, doc[k].node) \in {"td", "th"})
                   => /\ doc[k].cont[2] < Len(OwnRows(soup, doc[i].node))
                      /\ doc[k].cont[3]
                             < Len(OwnCells(soup, OwnRows(soup, doc[i].node)[doc[k].cont[2] + 1]))
                      /\ doc[k].node
                             = OwnCells(soup, OwnRows(soup, doc[i].node)[doc[k].cont[2] + 1])
                                   [doc[k].cont[3] + 1]

\* C10: no node of the body is emitted twice: no two runs, links or tables
\* of the output come from the same node.
C10_EmittedOnce ==
    \A i, j \in DOMAIN doc :
        (/\ i # j
         /\ doc[i].kind \in {"run", "link", "ilink", "table"}
         /\ doc[i].kind = doc[j].kind)
            => doc[i].node # doc[j].node

\* the number of c in s
RECURSIVE Count(_, _)
Count(s, c) ==
    IF s = <<>> THEN 0 ELSE (IF Head(s) = c THEN 1 ELSE 0) + Count(Tail(s), c)

\* the dict of the entries that are a single key: value pair, the last write
\* per key winning
RECURSIVE WellFormedOnly(_, _)
WellFormedOnly(entries, d) ==
    IF entries = <<>> THEN d
    ELSE IF Count(Head(entries), ":") # 1 THEN WellFormedOnly(Tail(entries), d)
    ELSE WellFormedOnly(Tail(entries),
                        DictSet(d, Strip(Split(Head(entries), ":")[1]),
                                StyleValue(Split(Head(entries), ":")[2])))

\* C11: parse_styles never raises: it drops every entry that is not a single
\* key: value pair and returns the well-formed ones, the last write per key
\* winning.
C11_ParseStylesNeverRaises ==
    (pc = "helpers" /\ call.fn = "parse_styles" /\ call.returned) =>
        /\ ~call.raised
        /\ call.ret = WellFormedOnly(Split(call.arg, ";"), EmptyDict)

\* the components of rgb(r,g,b), as numbers
RgbComponents(s) ==
    [k \in 1..3 |-> ToInt(Split(Slice(s, 5, Len(s) - 1), ",")[k], 10)]

\* the two uppercase hex digits of a number below 256
TwoHexDigits(n) == <<HexDigits[(n \div 16) + 1], HexDigits[(n % 16) + 1]>>

OneFlatTable ==
    /\ Len(source) >= 2
    /\ Name(source, 2) = "table"
    /\ \A n \in 3..Len(source) :
           /\ IsAncestor(source, 2, n)
           /\ Name(source, n) \in {"tr", "td", "th", TextName}

\* the body holds one list without items and nothing else
OneEmptyList == Len(source) = 2 /\ Name(source, 2) \in {"ol", "ul"}

\* C12: a ragged table, a table without rows or without cells, and a list
\* without items are converted without an exception, and the empty list
\* emits nothing.
C12_EmptyAndRaggedComplete ==
    /\ (OneFlatTable \/ OneEmptyList) => pc # "failed"
    /\ (OneEmptyList /\ Done) =>
           \A i \in DOMAIN doc : doc[i].kind \in {"list", "para"} /\ doc[i].node \in {0, 2}
                                 /\ (doc[i].kind = "para" => doc[i].style = "Title")

\* C13: when two html_to_docx calls are interleaved, every internal-anchor
\* lookup of a call searches that call's own tree: the first call, once done,
\* has linked each anchor-link in a top-level paragraph exactly when its own
\* tree holds an element with that id, and to that element's name or id.
OwnAnchorLinks ==
    {a \in DOMAIN html : Name(html, a) = "a" /\ HasClass(html, a, C_anchor_link)
                           /\ ParentName(html, a) = "p" /\ html[html[a].parent].parent = 1}
OwnTarget(a) == FindId(html, Attr(html, a, "class")[1])
OwnName(a) ==
    IF HasAttr(html, OwnTarget(a), "name") THEN Attr(html, OwnTarget(a), "name")
    ELSE Attr(html, OwnTarget(a), "id")
ILinksOf(a) == {i \in DOMAIN doc : doc[i].kind = "ilink" /\ doc[i].node = a}
C13_LookupsSearchOwnTree ==
    Done =>
        \A a \in OwnAnchorLinks :
            IF OwnTarget(a) = 0 THEN ILinksOf(a) = {}
            ELSE /\ ILinksOf(a) # {}
                 /\ \A i \in ILinksOf(a) : doc[i].name = OwnName(a)

\* C14: a text node that is a bare newline or a bare carriage return never
\* produces a run or a paragraph, wherever it stands: no run and no paragraph
\* of the document was made for such a node.
CrlfNodes == {n \in DOMAIN html : IsStr(html, n) /\ html[n].text \in {<<"\n">>, <<"\r">>}}
C14_CrlfMakesNothing ==
    \A i \in DOMAIN doc : doc[i].kind \in {"run", "para"} => doc[i].node \notin CrlfNodes
C14_Witness ==
    /\ Done
    /\ \E n \in CrlfNodes :
           /\ ParentName(html, n) \in {"p", "li", "blockquote", "body", "div"}
           /\ \E i \in DOMAIN doc : doc[i].kind = "run" /\ doc[i].node = n - 1

\* C16: whenever a top-level ordered list is emitted as a continuation, the
\* paragraph its first numbered paragraph continues from is the last paragraph
\* emitted for a preceding ol sibling of it: never absent, never a paragraph
\* of an unordered list or of a list elsewhere.
ContinuedLists ==
    {n \in DOMAIN source : /\ Branch(source, n) = "list" /\ Name(source, n) = "ol"
                             /\ NoteOf(n).style = "True" /\ Numbered(n) # <<>>}
ParasOf(n) == {i \in DOMAIN doc : doc[i].kind = "para" /\ IsAncestor(source, n, doc[i].node)}
C16_ContinuesPrecedingOrderedList ==
    Done =>
        \A n \in ContinuedLists :
            /\ doc[Numbered(n)[1]].prev # 0
            /\ \E k \in DOMAIN PrevSiblings(source, n, "ol") :
                   /\ ParasOf(PrevSiblings(source, n, "ol")[k]) # {}
                   /\ \A i \in ParasOf(PrevSiblings(source, n, "ol")[k]) :
                          i <= doc[Numbered(n)[1]].prev
                   /\ doc[Numbered(n)[1]].prev \in ParasOf(PrevSiblings(source, n, "ol")[k])

\* C17: every internal hyperlink emitted targets a bookmark the conversion
\* also emits for the resolved element: a bookmark made for the element the
\* link's id resolves to, under the name the link points at.
ILinks == {i \in DOMAIN doc : doc[i].kind = "ilink"}
Resolved(i) == FindId(html, Attr(html, doc[i].node, "class")[1])
C17_LinksHaveBookmarks ==
    Done =>
        \A i \in ILinks :
            \E j \in DOMAIN doc : /\ doc[j].kind = "bookmark"
                                  /\ doc[j].node = Resolved(i)
                                  /\ doc[j].name = doc[i].name

\* C18: every text node that is a direct child of a list item, bare newlines
\* and carriage returns apart, is the text of the list paragraph process_list
\* creates for it, and no list paragraph is left without content.
ListParas == {i \in DOMAIN doc : doc[i].kind = "para" /\ doc[i].style \in {"List Number", "List Bullet"}}
ContentOf(i) == {j \in DOMAIN doc : doc[j].kind \notin {"para", "list", "list_number"} /\ doc[j].para = i}
C18_ItemTextEmitted ==
    Done =>
        \A i \in ListParas :
            /\ ContentOf(i) # {}
            /\ IsStr(source, doc[i].node) =>
                   \E j \in ContentOf(i) : doc[j].kind = "run" /\ doc[j].text = source[doc[i].node].text

\* C19: when the span colour of a run cannot be parsed as a hex colour, the
\* run still receives bold, italic and underline: text of a b, em or u
\* element directly inside such a span, itself directly inside a top-level
\* paragraph, is emitted bold, italic or underlined.
BadColor(t, n) ==
    /\ Name(t, n) = "span" /\ HasAttr(t, n, "style")
    /\ K_color \in DOMAIN parse_styles(TRUE, Attr(t, n, "style")).d
    /\ StyledColor(t, n) = <<>>
FlagOf(i, name) ==
    CASE name \in {"b", "strong"} -> doc[i].bold
      [] name \in {"i", "em"} -> doc[i].italic
      [] name = "u" -> doc[i].underline
      [] OTHER -> "True"
C19_FlagsSurviveBadColor ==
    (Done /\ OneParagraph) =>
        \A k \in 1..Len(Runs) :
            (/\ source[source[doc[Runs[k]].node].parent].parent > 2
             /\ BadColor(source, source[source[doc[Runs[k]].node].parent].parent)
             /\ source[source[source[doc[Runs[k]].node].parent].parent].parent = 2)
                => FlagOf(Runs[k], Name(source, source[doc[Runs[k]].node].parent)) = "True"

\* C20: for a body built from the recognized tags and attributes, in any
\* nesting, the traversal of html_to_docx raises no exception.
C20_TraversalNeverRaises == pc # "failed"

=============================================================================
